---------------------------- MODULE Spec2Model ----------------------------
(***************************************************************************)
(* Pet and Category services of the petstore backend, over the relational  *)
(* store they reach through the Prisma client.                             *)
(*                                                                         *)
(* A service method is an async function: the code between two awaits runs *)
(* without interruption, and every awaited Prisma call is one statement    *)
(* executed by the store at a moment of its own.  So each method is cut at *)
(* its awaits: the call step runs the synchronous prefix and issues the    *)
(* first query, and each later step is one store statement followed by the *)
(* code up to the next await (or to the method's return or throw).         *)
(*                                                                         *)
(* JavaScript values: an object is a record, and a property that is        *)
(* undefined is a field the record does not have; null is NULL; a number   *)
(* that may be null is boxed as <<n>>; a category name is a sequence of    *)
(* characters (so that trim() is computed); other strings are strings.     *)
(***************************************************************************)
EXTENDS Integers, Sequences, FiniteSets, TLC

\* The store hands out ids from a SERIAL column: at most this many rows are
\* ever inserted into each table.
MaxCatId == 2
MaxPetId == 2

\* Requests in flight at the same time.
Procs == {"r1", "r2"}
P1 == "r1"
P2 == "r2"

VARIABLES
    categories,   \* rows of table "Category": [id, name]
    pets,         \* rows of table "Pet": [id, name, status, categoryId, createdAt]
    catSeq,       \* last value of Category.id's sequence
    petSeq,       \* last value of Pet.id's sequence
    req           \* per request slot: the service call it is running

vars == <<categories, pets, catSeq, petSeq, req>>
store == <<categories, pets, catSeq, petSeq>>

NULL == <<>>
Has(obj, f) == f \in DOMAIN obj

-----------------------------------------------------------------------------
(* Error taxonomy *)

AppError(name, code, message, statusCode, details) ==
    [name |-> name, code |-> code, message |-> message,
     statusCode |-> statusCode, details |-> details]

NotFoundError(message, details) ==
    AppError("NotFoundError", "NOT_FOUND", message, 404, details)

ValidationError(message, details) ==
    AppError("ValidationError", "VALIDATION_ERROR", message, 422, details)

BadRequestError(message, details) ==
    AppError("BadRequestError", "BAD_REQUEST", message, 400, details)

\* Prisma.PrismaClientKnownRequestError as the store raises it.
PrismaClientKnownRequestError(code, message) ==
    [name |-> "PrismaClientKnownRequestError", code |-> code, message |-> message]

P2002 == PrismaClientKnownRequestError("P2002", "Unique constraint failed")
P2003 == PrismaClientKnownRequestError("P2003", "Foreign key constraint failed")
P2025 == PrismaClientKnownRequestError("P2025", "Record not found")

-----------------------------------------------------------------------------
(* Strings *)

IsSpace(ch) == ch = " "

RECURSIVE TrimStart(_)
TrimStart(s) ==
    IF s # <<>> /\ IsSpace(Head(s)) THEN TrimStart(Tail(s)) ELSE s

RECURSIVE TrimEnd(_)
TrimEnd(s) ==
    IF s # <<>> /\ IsSpace(s[Len(s)]) THEN TrimEnd(SubSeq(s, 1, Len(s) - 1)) ELSE s

\* the name as it was given
Trim_none(s) == s

\* String.prototype.trim
Trim(s) == TrimEnd(TrimStart(s))

\* A JavaScript number handed to a method as an id: an integer, a value
\* strictly between two integers, or NaN.
Integer(n) == [int |-> n]
Between(n) == [floor |-> n]
NaN == [nan |-> TRUE]

\* Number.isInteger(x)
isInteger(x) == Has(x, "int")

\* the comparison with 0 in place of 1
LessThanOne_zeroAllowed(x) ==
    IF Has(x, "int") THEN x.int < 0
    ELSE IF Has(x, "floor") THEN x.floor < 0
    ELSE FALSE

\* x < 1; every comparison with NaN is false
LessThanOne(x) ==
    IF Has(x, "int") THEN x.int < 1
    ELSE IF Has(x, "floor") THEN x.floor < 1
    ELSE FALSE

\* id < 1 || !Number.isInteger(id)
InvalidNumber(x) == LessThanOne(x) \/ ~isInteger(x)

\* id < 1 || !Number.isInteger(id), of an id that is an integer
InvalidId(id) == InvalidNumber(Integer(id))

Digit == <<"0", "1", "2", "3", "4", "5", "6", "7", "8", "9">>
IsDigit(ch) == \E i \in 1..Len(Digit) : Digit[i] = ch
DigitValue(ch) == (CHOOSE i \in 1..Len(Digit) : Digit[i] = ch) - 1

\* the digits s starts with
RECURSIVE LeadingDigits(_)
LeadingDigits(s) ==
    IF s # <<>> /\ IsDigit(Head(s)) THEN <<Head(s)>> \o LeadingDigits(Tail(s))
    ELSE <<>>

RECURSIVE DecimalValue(_)
DecimalValue(d) ==
    IF d = <<>> THEN 0
    ELSE Len(Digit) * DecimalValue(SubSeq(d, 1, Len(d) - 1)) + DigitValue(d[Len(d)])

\* parseInt(s, 10): leading whitespace, a sign, then the digits up to the
\* first character that is not one; NaN when there is no digit
parseInt(s) ==
    LET t == TrimStart(s)
        signed == t # <<>> /\ Head(t) \in {"-", "+"}
        d == LeadingDigits(IF signed THEN Tail(t) ELSE t)
    IN  IF d = <<>> THEN NaN
        ELSE Integer(IF signed /\ Head(t) = "-" THEN -DecimalValue(d)
                     ELSE DecimalValue(d))

isNaN(x) == Has(x, "nan")

validStatuses == <<"available", "pending", "sold">>
includes(seq, x) == \E i \in 1..Len(seq) : seq[i] = x

-----------------------------------------------------------------------------
(* The store: tables "Category" and "Pet" with their constraints, and the  *)
(* Prisma statements the services issue.  A statement that would break a   *)
(* constraint changes nothing and raises the Prisma error of that          *)
(* constraint.  A query result that may be null is a set with at most one  *)
(* row.                                                                    *)

\* the table without its unique index
Category_name_key_dropped(rows) == TRUE

\* CREATE UNIQUE INDEX "Category_name_key" ON "Category"("name")
Category_name_key(rows) ==
    \A a \in rows, b \in rows : a.name = b.name => a.id = b.id

\* the table without its foreign key
Pet_categoryId_fkey_dropped(petRows, catRows) == TRUE

\* "Pet_categoryId_fkey" FOREIGN KEY ("categoryId") REFERENCES "Category"("id")
Pet_categoryId_fkey(petRows, catRows) ==
    \A pet \in petRows :
        pet.categoryId = NULL \/ \E c \in catRows : <<c.id>> = pet.categoryId

\* ... ON DELETE SET NULL: the rows of "Pet" after category `id` is deleted
OnDeleteSetNull(petRows, id) ==
    {IF pet.categoryId = <<id>> THEN [pet EXCEPT !.categoryId = NULL] ELSE pet :
        pet \in petRows}

\* prisma.category.findUnique({ where: { id } })
CategoryFindUnique(id) == {c \in categories : c.id = id}

\* prisma.category.findFirst({ where: { name } })
CategoryFindFirst(name) == {c \in categories : c.name = name}

\* prisma.category.findFirst({ where: { name, id: { not: id } } })
CategoryFindFirstNot(name, id) == {c \in categories : c.name = name /\ c.id # id}

\* the query without its include: category.pets is undefined
PetsOf_notIncluded(id) == {}

\* include: { pets: true }
PetsOf(id) == {pet \in pets : pet.categoryId = <<id>>}

\* include: { category: true }: the row left-joined with its category
WithCategory(pet) ==
    [id |-> pet.id, name |-> pet.name, status |-> pet.status,
     categoryId |-> pet.categoryId, createdAt |-> pet.createdAt,
     category |-> LET joined == {c \in categories : <<c.id>> = pet.categoryId}
                  IN  IF joined = {} THEN NULL ELSE CHOOSE c \in joined : TRUE]

\* prisma.category.create({ data: { name } })
CategoryCreate(name) ==
    LET row == [id |-> catSeq + 1, name |-> name]
        rows == categories \cup {row}
    IN  IF Category_name_key(rows)
        THEN [error |-> NULL, row |-> row, categories |-> rows, catSeq |-> catSeq + 1]
        ELSE [error |-> P2002, categories |-> categories, catSeq |-> catSeq]

\* an update that inserts the row it did not find and then reports the miss
CategoryUpdate_insertsMissing(id, name) ==
    LET row == [id |-> id, name |-> name]
        rows == {c \in categories : c.id # id} \cup {row}
    IN  IF CategoryFindUnique(id) = {}
        THEN [error |-> P2025, categories |-> rows]
        ELSE IF Category_name_key(rows)
        THEN [error |-> NULL, row |-> row, categories |-> rows]
        ELSE [error |-> P2002, categories |-> categories]

\* prisma.category.update({ where: { id }, data: { name } })
CategoryUpdate(id, name) ==
    LET row == [id |-> id, name |-> name]
        rows == {c \in categories : c.id # id} \cup {row}
    IN  IF CategoryFindUnique(id) = {}
        THEN [error |-> P2025, categories |-> categories]
        ELSE IF Category_name_key(rows)
        THEN [error |-> NULL, row |-> row, categories |-> rows]
        ELSE [error |-> P2002, categories |-> categories]

\* prisma.category.delete({ where: { id } })
CategoryDelete(id) ==
    IF CategoryFindUnique(id) = {}
    THEN [error |-> P2025, categories |-> categories, pets |-> pets]
    ELSE [error |-> NULL,
          categories |-> {c \in categories : c.id # id},
          pets |-> OnDeleteSetNull(pets, id)]

\* the characters of the model's names, in the order of the store's collation
Alphabet == <<" ", "a", "b">>
Rank(ch) == CHOOSE i \in 1..Len(Alphabet) : Alphabet[i] = ch

\* s sorts before t
RECURSIVE NameBefore(_, _)
NameBefore(s, t) ==
    IF t = <<>> THEN FALSE
    ELSE IF s = <<>> THEN TRUE
    ELSE IF Head(s) # Head(t) THEN Rank(Head(s)) < Rank(Head(t))
    ELSE NameBefore(Tail(s), Tail(t))

\* orderBy: { name: 'asc' }
RECURSIVE OrderByNameAsc(_)
OrderByNameAsc(rows) ==
    IF rows = {} THEN <<>>
    ELSE LET first == CHOOSE r \in rows :
                        \A o \in rows : o = r \/ NameBefore(r.name, o.name)
         IN  <<first>> \o OrderByNameAsc(rows \ {first})

\* prisma.category.findMany({ orderBy: { name: 'asc' } })
CategoryFindMany == OrderByNameAsc(categories)

\* prisma.pet.findUnique({ where: { id } })
PetFindUnique(id) == {pet \in pets : pet.id = id}

\* orderBy: { createdAt: 'asc' }
RECURSIVE OrderByCreatedAtAsc(_)
OrderByCreatedAtAsc(rows) ==
    IF rows = {} THEN <<>>
    ELSE LET oldest == CHOOSE r \in rows : \A o \in rows : r.createdAt <= o.createdAt
         IN  <<oldest>> \o OrderByCreatedAtAsc(rows \ {oldest})

\* orderBy: { createdAt: 'desc' }
RECURSIVE OrderByCreatedAtDesc(_)
OrderByCreatedAtDesc(rows) ==
    IF rows = {} THEN <<>>
    ELSE LET newest == CHOOSE r \in rows : \A o \in rows : o.createdAt <= r.createdAt
         IN  <<newest>> \o OrderByCreatedAtDesc(rows \ {newest})

Include(seq) == [i \in 1..Len(seq) |-> WithCategory(seq[i])]

\* prisma.pet.findMany({ where: { status }, include, orderBy: { createdAt: 'desc' } })
PetFindManyByStatus(status) ==
    Include(OrderByCreatedAtDesc({pet \in pets : pet.status = status}))

\* prisma.pet.findMany({ include, orderBy: { createdAt: 'desc' } })
PetFindMany == Include(OrderByCreatedAtDesc(pets))

\* prisma.pet.create({ data: { name, status, categoryId } }); createdAt defaults
\* to CURRENT_TIMESTAMP, which grows with every insert
PetCreate(data) ==
    LET row == [id |-> petSeq + 1,
                name |-> data.name,
                status |-> data.status,
                categoryId |-> IF Has(data, "categoryId") THEN data.categoryId ELSE NULL,
                createdAt |-> petSeq + 1]
        rows == pets \cup {row}
    IN  IF Pet_categoryId_fkey(rows, categories)
        THEN [error |-> NULL, row |-> row, pets |-> rows, petSeq |-> petSeq + 1]
        ELSE [error |-> P2003, pets |-> pets, petSeq |-> petSeq]

\* an update that clears every column it is given no value for
PetUpdate_unsetClears(id, data) ==
    IF PetFindUnique(id) = {}
    THEN [error |-> P2025, pets |-> pets]
    ELSE LET old == CHOOSE pet \in pets : pet.id = id
             row == [id |-> old.id,
                     name |-> IF Has(data, "name") THEN data.name ELSE "",
                     status |-> IF Has(data, "status") THEN data.status ELSE "",
                     categoryId |-> IF Has(data, "categoryId") THEN data.categoryId
                                    ELSE NULL,
                     createdAt |-> old.createdAt]
             rows == (pets \ {old}) \cup {row}
         IN  IF Pet_categoryId_fkey(rows, categories)
             THEN [error |-> NULL, row |-> row, pets |-> rows]
             ELSE [error |-> P2003, pets |-> pets]

\* prisma.pet.update({ where: { id }, data: { name, status, categoryId } }):
\* a property that is undefined leaves its column as it is
PetUpdate(id, data) ==
    IF PetFindUnique(id) = {}
    THEN [error |-> P2025, pets |-> pets]
    ELSE LET old == CHOOSE pet \in pets : pet.id = id
             row == [id |-> old.id,
                     name |-> IF Has(data, "name") THEN data.name ELSE old.name,
                     status |-> IF Has(data, "status") THEN data.status ELSE old.status,
                     categoryId |-> IF Has(data, "categoryId") THEN data.categoryId
                                    ELSE old.categoryId,
                     createdAt |-> old.createdAt]
             rows == (pets \ {old}) \cup {row}
         IN  IF Pet_categoryId_fkey(rows, categories)
             THEN [error |-> NULL, row |-> row, pets |-> rows]
             ELSE [error |-> P2003, pets |-> pets]

\* prisma.pet.delete({ where: { id } })
PetDelete(id) ==
    IF PetFindUnique(id) = {}
    THEN [error |-> P2025, pets |-> pets]
    ELSE [error |-> NULL, pets |-> {pet \in pets : pet.id # id}]

-----------------------------------------------------------------------------
(* A running service call *)

Idle == [pc |-> "idle"]

\* a call of method `op` with argument `data`, no statement issued yet
Invoke(op, data) ==
    [pc |-> "start", op |-> op, data |-> data, calls |-> <<>>, result |-> NULL]

\* the awaited statement has run
Ran(r) == [r EXCEPT !.calls = Append(@, r.pc)]

\* await the next statement
Await(r, call) == [r EXCEPT !.pc = call]

Return(r, value) ==
    [r EXCEPT !.pc = "done", !.result = [ok |-> TRUE, value |-> value]]

Throw(r, error) ==
    [r EXCEPT !.pc = "done", !.result = [ok |-> FALSE, error |-> error]]

At(p, op, call) == req[p].pc = call /\ req[p].op = op

\* the slots running method `op`
Running(op) == {q \in Procs : req[q].pc \notin {"idle", "done"} /\ req[q].op = op}

-----------------------------------------------------------------------------
(* CategoryService *)

\* the check without its trim: only a name that is undefined or '' is missing
NameMissing_untrimmed(data) == ~Has(data, "name") \/ data.name = <<>>

\* !data.name || data.name.trim().length === 0
NameMissing(data) ==
    ~Has(data, "name") \/ data.name = <<>> \/ Len(Trim(data.name)) = 0

NameOf(data) == IF Has(data, "name") THEN [name |-> data.name] ELSE <<>>

\* the catch block without its P2002 case
createCategoryCatch_noP2002(error, data) ==
    IF error.name = "PrismaClientKnownRequestError"
    THEN ValidationError("Failed to create category", [error |-> error.message])
    ELSE error

\* createCategory's catch block
createCategoryCatch(error, data) ==
    IF error.name = "PrismaClientKnownRequestError"
    THEN IF error.code = "P2002"
         THEN ValidationError("Category with this name already exists",
                              [name |-> data.name])
         ELSE ValidationError("Failed to create category", [error |-> error.message])
    ELSE error

\* createCategory up to its first await
createCategoryCall(data) ==
    LET r == Invoke("createCategory", data)
    IN  IF NameMissing(data)
        THEN Throw(r, ValidationError("Category name is required", NameOf(data)))
        ELSE Await(r, "category.findFirst")

createCategory(p, Inputs) ==
    \/ /\ req[p].pc = "idle"
       /\ catSeq + Cardinality(Running("createCategory")) < MaxCatId
       /\ \E data \in Inputs : req' = [req EXCEPT ![p] = createCategoryCall(data)]
       /\ UNCHANGED store
    \/ /\ At(p, "createCategory", "category.findFirst")
       /\ LET r == Ran(req[p])
              existing == CategoryFindFirst(r.data.name)
          IN  req' = [req EXCEPT ![p] =
                  IF existing # {}
                  THEN Throw(r, ValidationError("Category with this name already exists",
                                                [name |-> r.data.name]))
                  ELSE Await(r, "category.create")]
       /\ UNCHANGED store
    \/ /\ At(p, "createCategory", "category.create")
       /\ LET r == Ran(req[p])
              res == CategoryCreate(Trim(r.data.name))
          IN  /\ categories' = res.categories
              /\ catSeq' = res.catSeq
              /\ req' = [req EXCEPT ![p] =
                    IF res.error = NULL THEN Return(r, res.row)
                    ELSE Throw(r, createCategoryCatch(res.error, r.data))]
       /\ UNCHANGED <<pets, petSeq>>

\* the catch block without its P2025 case
updateCategoryCatch_noP2025(error, data) ==
    IF error.name = "PrismaClientKnownRequestError"
    THEN IF error.code = "P2002"
         THEN ValidationError("Category with this name already exists",
                              [name |-> data.name])
         ELSE ValidationError("Failed to update category", [error |-> error.message])
    ELSE error

\* updateCategory's catch block
updateCategoryCatch(error, data) ==
    IF error.name = "PrismaClientKnownRequestError"
    THEN IF error.code = "P2025"
         THEN NotFoundError("Category not found", [id |-> data.id])
         ELSE IF error.code = "P2002"
         THEN ValidationError("Category with this name already exists",
                              [name |-> data.name])
         ELSE ValidationError("Failed to update category", [error |-> error.message])
    ELSE error

\* updateCategory up to its first await
updateCategoryCall(data) ==
    LET r == Invoke("updateCategory", data)
    IN  IF InvalidId(data.id)
        THEN Throw(r, BadRequestError("Invalid category ID", [id |-> data.id]))
        ELSE IF NameMissing(data)
        THEN Throw(r, ValidationError("Category name is required", NameOf(data)))
        ELSE Await(r, "category.findUnique")

updateCategory(p, Inputs) ==
    \/ /\ req[p].pc = "idle"
       /\ \E data \in Inputs : req' = [req EXCEPT ![p] = updateCategoryCall(data)]
       /\ UNCHANGED store
    \/ /\ At(p, "updateCategory", "category.findUnique")
       /\ LET r == Ran(req[p])
              existing == CategoryFindUnique(r.data.id)
          IN  req' = [req EXCEPT ![p] =
                  IF existing = {}
                  THEN Throw(r, NotFoundError("Category not found", [id |-> r.data.id]))
                  ELSE Await(r, "category.findFirst")]
       /\ UNCHANGED store
    \/ /\ At(p, "updateCategory", "category.findFirst")
       /\ LET r == Ran(req[p])
              duplicate == CategoryFindFirstNot(r.data.name, r.data.id)
          IN  req' = [req EXCEPT ![p] =
                  IF duplicate # {}
                  THEN Throw(r, ValidationError("Category with this name already exists",
                                                [name |-> r.data.name]))
                  ELSE Await(r, "category.update")]
       /\ UNCHANGED store
    \/ /\ At(p, "updateCategory", "category.update")
       /\ LET r == Ran(req[p])
              res == CategoryUpdate(r.data.id, Trim(r.data.name))
          IN  /\ categories' = res.categories
              /\ req' = [req EXCEPT ![p] =
                    IF res.error = NULL THEN Return(r, res.row)
                    ELSE Throw(r, updateCategoryCatch(res.error, r.data))]
       /\ UNCHANGED <<pets, catSeq, petSeq>>

\* deleteCategory's catch block
deleteCategoryCatch(error, id) ==
    IF error.name = "PrismaClientKnownRequestError"
    THEN IF error.code = "P2025"
         THEN NotFoundError("Category not found", [id |-> id])
         ELSE ValidationError("Failed to delete category", [error |-> error.message])
    ELSE error

deleteCategory(p, Inputs) ==
    \/ /\ req[p].pc = "idle"
       /\ \E id \in Inputs :
            LET r == Invoke("deleteCategory", id)
            IN  req' = [req EXCEPT ![p] =
                    IF InvalidId(id)
                    THEN Throw(r, BadRequestError("Invalid category ID", [id |-> id]))
                    ELSE Await(r, "category.findUnique")]
       /\ UNCHANGED store
    \/ /\ At(p, "deleteCategory", "category.findUnique")
       /\ LET r == Ran(req[p])
              id == r.data
              category == CategoryFindUnique(id)
              categoryPets == PetsOf(id)
          IN  req' = [req EXCEPT ![p] =
                  IF category = {}
                  THEN Throw(r, NotFoundError("Category not found", [id |-> id]))
                  ELSE IF Cardinality(categoryPets) > 0
                  THEN Throw(r, ValidationError(
                           "Cannot delete category with associated pets. Please remove or reassign pets first.",
                           [id |-> id, petCount |-> Cardinality(categoryPets)]))
                  ELSE Await(r, "category.delete")]
       /\ UNCHANGED store
    \/ /\ At(p, "deleteCategory", "category.delete")
       /\ LET r == Ran(req[p])
              id == r.data
              res == CategoryDelete(id)
          IN  /\ categories' = res.categories
              /\ pets' = res.pets
              /\ req' = [req EXCEPT ![p] =
                    IF res.error = NULL THEN Return(r, NULL)
                    ELSE Throw(r, deleteCategoryCatch(res.error, id))]
       /\ UNCHANGED <<catSeq, petSeq>>

getCategoryById(p, Inputs) ==
    \/ /\ req[p].pc = "idle"
       /\ \E id \in Inputs :
            LET r == Invoke("getCategoryById", id)
            IN  req' = [req EXCEPT ![p] =
                    IF InvalidId(id)
                    THEN Throw(r, BadRequestError("Invalid category ID", [id |-> id]))
                    ELSE Await(r, "category.findUnique")]
       /\ UNCHANGED store
    \/ /\ At(p, "getCategoryById", "category.findUnique")
       /\ LET r == Ran(req[p])
              category == CategoryFindUnique(r.data)
          IN  req' = [req EXCEPT ![p] =
                  IF category = {}
                  THEN Throw(r, NotFoundError("Category not found", [id |-> r.data]))
                  ELSE Return(r, CHOOSE c \in category : TRUE)]
       /\ UNCHANGED store

\* getAllCategories up to its first await
getAllCategoriesCall == Await(Invoke("getAllCategories", NULL), "category.findMany")

getAllCategories(p) ==
    \/ /\ req[p].pc = "idle"
       /\ req' = [req EXCEPT ![p] = getAllCategoriesCall]
       /\ UNCHANGED store
    \/ /\ At(p, "getAllCategories", "category.findMany")
       /\ req' = [req EXCEPT ![p] = Return(Ran(req[p]), CategoryFindMany)]
       /\ UNCHANGED store

getCategoryWithPets(p, Inputs) ==
    \/ /\ req[p].pc = "idle"
       /\ \E id \in Inputs :
            LET r == Invoke("getCategoryWithPets", id)
            IN  req' = [req EXCEPT ![p] =
                    IF InvalidId(id)
                    THEN Throw(r, BadRequestError("Invalid category ID", [id |-> id]))
                    ELSE Await(r, "category.findUnique")]
       /\ UNCHANGED store
    \/ /\ At(p, "getCategoryWithPets", "category.findUnique")
       /\ LET r == Ran(req[p])
              category == CategoryFindUnique(r.data)
          IN  req' = [req EXCEPT ![p] =
                  IF category = {}
                  THEN Throw(r, NotFoundError("Category not found", [id |-> r.data]))
                  ELSE LET c == CHOOSE c \in category : TRUE
                       IN  Return(r, [id |-> c.id, name |-> c.name,
                                      pets |-> PetsOf(c.id)])]
       /\ UNCHANGED store

-----------------------------------------------------------------------------
(* PetService *)

\* data.categoryId !== null && data.categoryId !== undefined
CategoryGiven(data) == Has(data, "categoryId") /\ data.categoryId # NULL

\* data.status && !validStatuses.includes(data.status)
StatusInvalid(data) ==
    Has(data, "status") /\ data.status # "" /\ ~includes(validStatuses, data.status)

InvalidStatusValue(data) ==
    ValidationError("Invalid status value",
                    [status |-> data.status, validStatuses |-> validStatuses])

\* the category check reporting the wrong kind of error
CategoryNotFound_as404(data) ==
    NotFoundError("Category not found", [categoryId |-> data.categoryId])

\* throw new ValidationError('Category not found', { categoryId: data.categoryId })
CategoryNotFound(data) ==
    ValidationError("Category not found", [categoryId |-> data.categoryId])

\* obj with property f set to v
With(obj, f, v) == [g \in DOMAIN obj \cup {f} |-> IF g = f THEN v ELSE obj[g]]

\* the properties of `data` that prisma is given
Pick(data, fields) == [f \in DOMAIN data \cap fields |-> data[f]]

\* createPet's argument to prisma.pet.create: status: data.status || 'available'
createPetData(data) ==
    [f \in (DOMAIN data \cap {"name", "categoryId"}) \cup {"status"} |->
        IF f = "status"
        THEN IF Has(data, "status") /\ data.status # "" THEN data.status ELSE "available"
        ELSE data[f]]

\* a catch block that rethrows what it caught
createPetCatch_rethrows(error, data) == error

\* createPet's catch block
createPetCatch(error, data) ==
    IF error.name = "PrismaClientKnownRequestError"
    THEN ValidationError("Failed to create pet", [error |-> error.message])
    ELSE error

\* createPet after its category check: validate status, then create
createPetValidate(r) ==
    IF StatusInvalid(r.data) THEN Throw(r, InvalidStatusValue(r.data))
    ELSE Await(r, "pet.create")

\* createPet up to its first await
createPetCall(data) ==
    LET r == Invoke("createPet", data)
    IN  IF CategoryGiven(data) THEN Await(r, "category.findUnique")
        ELSE createPetValidate(r)

createPet(p, Inputs) ==
    \/ /\ req[p].pc = "idle"
       /\ petSeq + Cardinality(Running("createPet")) < MaxPetId
       /\ \E data \in Inputs : req' = [req EXCEPT ![p] = createPetCall(data)]
       /\ UNCHANGED store
    \/ /\ At(p, "createPet", "category.findUnique")
       /\ LET r == Ran(req[p])
              category == CategoryFindUnique(r.data.categoryId[1])
          IN  req' = [req EXCEPT ![p] =
                  IF category = {}
                  THEN Throw(r, CategoryNotFound(r.data))
                  ELSE createPetValidate(r)]
       /\ UNCHANGED store
    \/ /\ At(p, "createPet", "pet.create")
       /\ LET r == Ran(req[p])
              res == PetCreate(createPetData(r.data))
          IN  /\ pets' = res.pets
              /\ petSeq' = res.petSeq
              /\ req' = [req EXCEPT ![p] =
                    IF res.error = NULL THEN Return(r, WithCategory(res.row))
                    ELSE Throw(r, createPetCatch(res.error, r.data))]
       /\ UNCHANGED <<categories, catSeq>>

\* a catch block that rethrows what it caught
updatePetCatch_rethrows(error, data) == error

\* updatePet's catch block
updatePetCatch(error, data) ==
    IF error.name = "PrismaClientKnownRequestError"
    THEN IF error.code = "P2025"
         THEN NotFoundError("Pet not found", [id |-> data.id])
         ELSE ValidationError("Failed to update pet", [error |-> error.message])
    ELSE error

\* updatePet after its category check: validate status, then update
updatePetValidate(r) ==
    IF StatusInvalid(r.data) THEN Throw(r, InvalidStatusValue(r.data))
    ELSE Await(r, "pet.update")

\* updatePet up to its first await
updatePetCall(data) == Await(Invoke("updatePet", data), "pet.findUnique")

updatePet(p, Inputs) ==
    \/ /\ req[p].pc = "idle"
       /\ \E data \in Inputs : req' = [req EXCEPT ![p] = updatePetCall(data)]
       /\ UNCHANGED store
    \/ /\ At(p, "updatePet", "pet.findUnique")
       /\ LET r == Ran(req[p])
              existingPet == PetFindUnique(r.data.id)
          IN  req' = [req EXCEPT ![p] =
                  IF existingPet = {}
                  THEN Throw(r, NotFoundError("Pet not found", [id |-> r.data.id]))
                  ELSE IF CategoryGiven(r.data) THEN Await(r, "category.findUnique")
                  ELSE updatePetValidate(r)]
       /\ UNCHANGED store
    \/ /\ At(p, "updatePet", "category.findUnique")
       /\ LET r == Ran(req[p])
              category == CategoryFindUnique(r.data.categoryId[1])
          IN  req' = [req EXCEPT ![p] =
                  IF category = {}
                  THEN Throw(r, CategoryNotFound(r.data))
                  ELSE updatePetValidate(r)]
       /\ UNCHANGED store
    \/ /\ At(p, "updatePet", "pet.update")
       /\ LET r == Ran(req[p])
              res == PetUpdate(r.data.id, Pick(r.data, {"name", "status", "categoryId"}))
          IN  /\ pets' = res.pets
              /\ req' = [req EXCEPT ![p] =
                    IF res.error = NULL THEN Return(r, WithCategory(res.row))
                    ELSE Throw(r, updatePetCatch(res.error, r.data))]
       /\ UNCHANGED <<categories, catSeq, petSeq>>

\* findPetsByStatus(status: string = 'available'): the default parameter
\* stands in for an argument that is undefined
StatusArg(data) == IF Has(data, "status") THEN data.status ELSE "available"

\* the query check throwing what createPet and updatePet throw
InvalidStatusQuery_as422(status) ==
    ValidationError("Invalid status value",
                    [status |-> status, validStatuses |-> validStatuses])

\* throw new BadRequestError('Invalid status value', { status, validStatuses })
InvalidStatusQuery(status) ==
    BadRequestError("Invalid status value",
                    [status |-> status, validStatuses |-> validStatuses])

\* findPetsByStatus up to its first await
findPetsByStatusCall(data) ==
    LET r == Invoke("findPetsByStatus", data)
        status == StatusArg(data)
    IN  IF ~includes(validStatuses, status)
        THEN Throw(r, InvalidStatusQuery(status))
        ELSE Await(r, "pet.findMany")

findPetsByStatus(p, Inputs) ==
    \/ /\ req[p].pc = "idle"
       /\ \E data \in Inputs : req' = [req EXCEPT ![p] = findPetsByStatusCall(data)]
       /\ UNCHANGED store
    \/ /\ At(p, "findPetsByStatus", "pet.findMany")
       /\ LET r == Ran(req[p])
          IN  req' = [req EXCEPT ![p] = Return(r, PetFindManyByStatus(StatusArg(r.data)))]
       /\ UNCHANGED store

\* getPetById up to its first await
getPetByIdCall(id) ==
    LET r == Invoke("getPetById", id)
    IN  IF InvalidNumber(id)
        THEN Throw(r, BadRequestError("Invalid pet ID", [id |-> id]))
        ELSE Await(r, "pet.findUnique")

\* a lookup that removes the row it has read
getPetById_destructive(p, Inputs) ==
    \/ /\ req[p].pc = "idle"
       /\ \E id \in Inputs : req' = [req EXCEPT ![p] = getPetByIdCall(id)]
       /\ UNCHANGED store
    \/ /\ At(p, "getPetById", "pet.findUnique")
       /\ LET r == Ran(req[p])
              pet == PetFindUnique(r.data.int)
          IN  /\ req' = [req EXCEPT ![p] =
                    IF pet = {}
                    THEN Throw(r, NotFoundError("Pet not found", [id |-> r.data]))
                    ELSE Return(r, WithCategory(CHOOSE row \in pet : TRUE))]
              /\ pets' = pets \ pet
       /\ UNCHANGED <<categories, catSeq, petSeq>>

\* `Inputs` are JavaScript numbers
getPetById(p, Inputs) ==
    \/ /\ req[p].pc = "idle"
       /\ \E id \in Inputs : req' = [req EXCEPT ![p] = getPetByIdCall(id)]
       /\ UNCHANGED store
    \/ /\ At(p, "getPetById", "pet.findUnique")
       /\ LET r == Ran(req[p])
              pet == PetFindUnique(r.data.int)
          IN  req' = [req EXCEPT ![p] =
                  IF pet = {}
                  THEN Throw(r, NotFoundError("Pet not found", [id |-> r.data]))
                  ELSE Return(r, WithCategory(CHOOSE row \in pet : TRUE))]
       /\ UNCHANGED store

\* the catch block without its P2025 case
deletePetCatch_noP2025(error, id) ==
    IF error.name = "PrismaClientKnownRequestError"
    THEN ValidationError("Failed to delete pet", [error |-> error.message])
    ELSE error

getAllPets(p) ==
    \/ /\ req[p].pc = "idle"
       /\ req' = [req EXCEPT ![p] = Await(Invoke("getAllPets", NULL), "pet.findMany")]
       /\ UNCHANGED store
    \/ /\ At(p, "getAllPets", "pet.findMany")
       /\ req' = [req EXCEPT ![p] = Return(Ran(req[p]), PetFindMany)]
       /\ UNCHANGED store

\* deletePet's catch block
deletePetCatch(error, id) ==
    IF error.name = "PrismaClientKnownRequestError"
    THEN IF error.code = "P2025"
         THEN NotFoundError("Pet not found", [id |-> id])
         ELSE ValidationError("Failed to delete pet", [error |-> error.message])
    ELSE error

\* deletePet up to its first await
deletePetCall(id) ==
    LET r == Invoke("deletePet", id)
    IN  IF InvalidId(id)
        THEN Throw(r, BadRequestError("Invalid pet ID", [id |-> id]))
        ELSE Await(r, "pet.findUnique")

\* a delete that looks the pet up again after it has removed it
deletePet_looksUpAfter(p, Inputs) ==
    \/ /\ req[p].pc = "idle"
       /\ \E id \in Inputs : req' = [req EXCEPT ![p] = deletePetCall(id)]
       /\ UNCHANGED store
    \/ /\ At(p, "deletePet", "pet.findUnique")
       /\ LET r == Ran(req[p])
              pet == PetFindUnique(r.data)
          IN  req' = [req EXCEPT ![p] =
                  IF pet = {}
                  THEN Throw(r, NotFoundError("Pet not found", [id |-> r.data]))
                  ELSE Await(r, "pet.delete")]
       /\ UNCHANGED store
    \/ /\ At(p, "deletePet", "pet.delete")
       /\ LET r == Ran(req[p])
              res == PetDelete(r.data)
          IN  /\ pets' = res.pets
              /\ req' = [req EXCEPT ![p] =
                    IF res.error = NULL THEN Await(r, "pet.findUnique")
                    ELSE Throw(r, deletePetCatch(res.error, r.data))]
       /\ UNCHANGED <<categories, catSeq, petSeq>>

deletePet(p, Inputs) ==
    \/ /\ req[p].pc = "idle"
       /\ \E id \in Inputs : req' = [req EXCEPT ![p] = deletePetCall(id)]
       /\ UNCHANGED store
    \/ /\ At(p, "deletePet", "pet.findUnique")
       /\ LET r == Ran(req[p])
              pet == PetFindUnique(r.data)
          IN  req' = [req EXCEPT ![p] =
                  IF pet = {}
                  THEN Throw(r, NotFoundError("Pet not found", [id |-> r.data]))
                  ELSE Await(r, "pet.delete")]
       /\ UNCHANGED store
    \/ /\ At(p, "deletePet", "pet.delete")
       /\ LET r == Ran(req[p])
              res == PetDelete(r.data)
          IN  /\ pets' = res.pets
              /\ req' = [req EXCEPT ![p] =
                    IF res.error = NULL THEN Return(r, NULL)
                    ELSE Throw(r, deletePetCatch(res.error, r.data))]
       /\ UNCHANGED <<categories, catSeq, petSeq>>

\* the method has settled and its caller has the outcome: the slot is free
Settled(p) ==
    /\ req[p].pc = "done"
    /\ req' = [req EXCEPT ![p] = Idle]
    /\ UNCHANGED store

\* Prisma.PrismaClientInitializationError: not a known request error
PrismaClientInitializationError ==
    [name |-> "PrismaClientInitializationError",
     message |-> "Can't reach database server"]

\* a statement that is issued a second time when it is rejected
Unreachable_retriesOnce(p) ==
    /\ req[p].pc \notin {"idle", "done"}
    /\ req' = [req EXCEPT ![p] =
            IF req[p].calls # <<>> /\ req[p].calls[Len(req[p].calls)] = req[p].pc
            THEN Throw(Ran(req[p]), PrismaClientInitializationError)
            ELSE Ran(req[p])]
    /\ UNCHANGED store

\* the awaited statement is rejected because the store cannot be reached: a
\* statement outside a try block rejects the method with the error, and every
\* catch block rethrows an error that is not a known request error
Unreachable(p) ==
    /\ req[p].pc \notin {"idle", "done"}
    /\ req' = [req EXCEPT ![p] = Throw(Ran(req[p]), PrismaClientInitializationError)]
    /\ UNCHANGED store

-----------------------------------------------------------------------------
(* OpenAPIServiceHandler: an operation handler takes the request, calls one *)
(* service method and, in the same turn in which that call settles, sends   *)
(* the reply; `reply` is what it sends.                                     *)

\* the service call `r` made by operation handler `handler` for `body`
Dispatch(handler, body, r) ==
    [f \in DOMAIN r \cup {"handler", "body"} |->
        IF f = "handler" THEN handler ELSE IF f = "body" THEN body ELSE r[f]]

\* reply.status(..).send(..) by a check of the handler itself, followed by
\* return: no service method is called
Local(handler, body, sent) ==
    [pc |-> "done", op |-> "", handler |-> handler, body |-> body,
     calls |-> <<>>, result |-> NULL, sent |-> sent]

Via(p, handler) == Has(req[p], "handler") /\ req[p].handler = handler

\* a service method called without a handler
Direct(p) == ~Has(req[p], "handler")

\* error instanceof AppError
IsAppError(error) ==
    error.name \in {"AppError", "NotFoundError", "ValidationError", "BadRequestError"}

\* a translator that sends an unclassified error as it is
handleError_sendsError(error) ==
    IF IsAppError(error)
    THEN [status |-> error.statusCode,
          body |-> [code |-> error.code, message |-> error.message,
                    details |-> error.details]]
    ELSE [status |-> 500,
          body |-> [code |-> "INTERNAL_ERROR", message |-> error.message,
                    details |-> error]]

handleError(error) ==
    IF IsAppError(error)
    THEN [status |-> error.statusCode,
          body |-> [code |-> error.code, message |-> error.message,
                    details |-> error.details]]
    ELSE [status |-> 500,
          body |-> [code |-> "INTERNAL_ERROR",
                    message |-> "An unexpected error occurred"]]

\* a handler that sends the row as the service returned it
formatPetResponse_asStored(pet) == pet

\* category: pet.category ? { id, name } : undefined
formatPetResponse(pet) ==
    [f \in {"id", "name", "status"}
            \cup (IF pet.category # NULL THEN {"category"} ELSE {}) |->
        IF f = "category"
        THEN [id |-> pet.category.id, name |-> pet.category.name]
        ELSE pet[f]]

\* { code: 'INVALID_INPUT', message } with status 400
InvalidInput(message) ==
    [status |-> 400, body |-> [code |-> "INVALID_INPUT", message |-> message]]

\* { id: category.id, name: category.name }
formatCategory(category) == [id |-> category.id, name |-> category.name]

\* the body operation handler `handler` sends for what its service method
\* returned
sendOk(handler, value) ==
    CASE handler \in {"addPet", "updatePet", "getPetById", "updatePetWithForm"} ->
            formatPetResponse(value)
      [] handler = "findPetsByStatus" ->
            [i \in 1..Len(value) |-> formatPetResponse(value[i])]
      [] handler = "deletePet" -> [message |-> "Pet deleted"]
      [] handler \in {"addCategory", "updateCategory"} -> formatCategory(value)
      [] handler = "getAllCategories" ->
            [i \in 1..Len(value) |-> formatCategory(value[i])]

\* what the handler of request `r` sends
reply(r) ==
    IF Has(r, "sent") THEN r.sent
    ELSE IF ~r.result.ok THEN handleError(r.result.error)
    ELSE [status |-> 200, body |-> sendOk(r.handler, r.result.value)]

\* a check that takes any id the body has
IdMissing_presentIsEnough(body) == ~Has(body, "id")

\* !body.id
IdMissing(body) == ~Has(body, "id") \/ body.id = 0

\* { id: body.id, name: body.name, status: body.status,
\*   categoryId: body.category?.id ?? null }
updatePetArgs(body) ==
    [f \in (DOMAIN body \cap {"id", "name", "status"}) \cup {"categoryId"} |->
        IF f = "categoryId"
        THEN IF Has(body, "category") /\ Has(body.category, "id")
             THEN <<body.category.id>> ELSE NULL
        ELSE body[f]]

\* PUT /pet
OpenAPIServiceHandler_updatePet(p, Bodies) ==
    \/ /\ req[p].pc = "idle"
       /\ \E body \in Bodies :
            req' = [req EXCEPT ![p] =
                IF IdMissing(body)
                THEN Local("updatePet", body, InvalidInput("Pet ID is required"))
                ELSE Dispatch("updatePet", body, updatePetCall(updatePetArgs(body)))]
       /\ UNCHANGED store
    \/ /\ Via(p, "updatePet")
       /\ updatePet(p, {})

\* { name: body.name, status: body.status,
\*   categoryId: body.category?.id ?? null }
addPetArgs(body) ==
    [f \in (DOMAIN body \cap {"name", "status"}) \cup {"categoryId"} |->
        IF f = "categoryId"
        THEN IF Has(body, "category") /\ Has(body.category, "id")
             THEN <<body.category.id>> ELSE NULL
        ELSE body[f]]

\* POST /pet
OpenAPIServiceHandler_addPet(p, Bodies) ==
    \/ /\ req[p].pc = "idle"
       /\ petSeq + Cardinality(Running("createPet")) < MaxPetId
       /\ \E body \in Bodies :
            req' = [req EXCEPT ![p] =
                Dispatch("addPet", body, createPetCall(addPetArgs(body)))]
       /\ UNCHANGED store
    \/ /\ Via(p, "addPet")
       /\ createPet(p, {})

\* GET /pet/{petId}
OpenAPIServiceHandler_getPetById(p, Params) ==
    \/ /\ req[p].pc = "idle"
       /\ \E params \in Params :
            LET id == parseInt(params.petId)
            IN  req' = [req EXCEPT ![p] =
                    IF isNaN(id)
                    THEN Local("getPetById", params, InvalidInput("Invalid pet ID"))
                    ELSE Dispatch("getPetById", params, getPetByIdCall(id))]
       /\ UNCHANGED store
    \/ /\ Via(p, "getPetById")
       /\ getPetById(p, {})

\* POST /pet/{petId}: `Params` hold petId and the query's name and status
OpenAPIServiceHandler_updatePetWithForm(p, Params) ==
    \/ /\ req[p].pc = "idle"
       /\ \E params \in Params :
            LET id == parseInt(params.petId)
            IN  req' = [req EXCEPT ![p] =
                    IF isNaN(id)
                    THEN Local("updatePetWithForm", params, InvalidInput("Invalid pet ID"))
                    ELSE Dispatch("updatePetWithForm", params,
                             updatePetCall(With(Pick(params, {"name", "status"}),
                                                "id", id.int)))]
       /\ UNCHANGED store
    \/ /\ Via(p, "updatePetWithForm")
       /\ updatePet(p, {})

\* DELETE /pet/{petId}
OpenAPIServiceHandler_deletePet(p, Params) ==
    \/ /\ req[p].pc = "idle"
       /\ \E params \in Params :
            LET id == parseInt(params.petId)
            IN  req' = [req EXCEPT ![p] =
                    IF isNaN(id)
                    THEN Local("deletePet", params, InvalidInput("Invalid pet ID"))
                    ELSE Dispatch("deletePet", params, deletePetCall(id.int))]
       /\ UNCHANGED store
    \/ /\ Via(p, "deletePet")
       /\ deletePet(p, {})

\* POST /category
OpenAPIServiceHandler_addCategory(p, Bodies) ==
    \/ /\ req[p].pc = "idle"
       /\ catSeq + Cardinality(Running("createCategory")) < MaxCatId
       /\ \E body \in Bodies :
            req' = [req EXCEPT ![p] =
                Dispatch("addCategory", body, createCategoryCall(Pick(body, {"name"})))]
       /\ UNCHANGED store
    \/ /\ Via(p, "addCategory")
       /\ createCategory(p, {})

\* PUT /category
OpenAPIServiceHandler_updateCategory(p, Bodies) ==
    \/ /\ req[p].pc = "idle"
       /\ \E body \in Bodies :
            req' = [req EXCEPT ![p] =
                IF IdMissing(body)
                THEN Local("updateCategory", body, InvalidInput("Category ID is required"))
                ELSE Dispatch("updateCategory", body,
                              updateCategoryCall(Pick(body, {"id", "name"})))]
       /\ UNCHANGED store
    \/ /\ Via(p, "updateCategory")
       /\ updateCategory(p, {})

\* GET /category/listAll
OpenAPIServiceHandler_getAllCategories(p) ==
    \/ /\ req[p].pc = "idle"
       /\ req' = [req EXCEPT ![p] = Dispatch("getAllCategories", NULL, getAllCategoriesCall)]
       /\ UNCHANGED store
    \/ /\ Via(p, "getAllCategories")
       /\ getAllCategories(p)

\* GET /pet/findByStatus
OpenAPIServiceHandler_findPetsByStatus(p, Queries) ==
    \/ /\ req[p].pc = "idle"
       /\ \E query \in Queries :
            req' = [req EXCEPT ![p] =
                Dispatch("findPetsByStatus", query, findPetsByStatusCall(query))]
       /\ UNCHANGED store
    \/ /\ Via(p, "findPetsByStatus")
       /\ findPetsByStatus(p, {})

-----------------------------------------------------------------------------
(* Requests *)

CategoryNames == {<<"a">>, <<" ", "a">>, <<"b", " ">>, <<" ">>, <<>>}
CategoryIds == 0..MaxCatId

CategoryInputs == [name : CategoryNames]
CategoryUpdates == [id : CategoryIds, name : CategoryNames]

PetIds == 0..MaxPetId

\* numbers given as a pet id: -1, 0, the ids, 0.5, 1.5 and NaN
PetIdArgs ==
    {Integer(n) : n \in PetIds \cup {-1}} \cup {Between(0), Between(1), NaN}
Statuses == {"", "sold", "lost"}
CategoryRefs == {NULL} \cup {<<id>> : id \in 1..MaxCatId}

\* objects with the fields of `required` and any of the optional status and
\* categoryId
WithOptions(required, statuses, refs) ==
    UNION {
        {[f \in DOMAIN r \cup DOMAIN o |-> IF f \in DOMAIN o THEN o[f] ELSE r[f]] :
            o \in {<<>>} \cup [status : statuses] \cup [categoryId : refs]
                  \cup [status : statuses, categoryId : refs]} :
        r \in required}

PetInputs == WithOptions([name : {"Rex"}], Statuses, CategoryRefs)
PetUpdates == WithOptions([id : 1..MaxPetId], Statuses, CategoryRefs)
StatusArgs == {<<>>} \cup [status : Statuses \cup {"available"}]

\* the requests that race on a pet's category reference
RacingPetInputs == WithOptions([name : {"Rex"}], {}, CategoryRefs)
RacingPetUpdates == WithOptions([id : 1..MaxPetId], {}, CategoryRefs)

Init ==
    /\ categories = {}
    /\ pets = {}
    /\ catSeq = 0
    /\ petSeq = 0
    /\ req = [p \in Procs |-> Idle]

\* concurrent requests to the Category service
CategoryNext ==
    \E p \in Procs :
        \/ createCategory(p, CategoryInputs)
        \/ updateCategory(p, CategoryUpdates)
        \/ deleteCategory(p, CategoryIds)
        \/ Settled(p)

CategorySpec == Init /\ [][CategoryNext]_vars

\* concurrent requests to both services
Next ==
    \E p \in Procs :
        \/ createCategory(p, [name : {<<"a">>}])
        \/ deleteCategory(p, 1..MaxCatId)
        \/ createPet(p, RacingPetInputs)
        \/ updatePet(p, RacingPetUpdates)
        \/ deletePet(p, 1..MaxPetId)
        \/ Settled(p)

Spec == Init /\ [][Next]_vars

\* one request after the other
SeqNext ==
    \/ createCategory(P1, [name : {<<"a">>, <<"b", " ">>}])
    \/ deleteCategory(P1, CategoryIds)
    \/ getCategoryById(P1, CategoryIds)
    \/ createPet(P1, PetInputs)
    \/ updatePet(P1, PetUpdates)
    \/ findPetsByStatus(P1, StatusArgs)
    \/ getPetById(P1, PetIdArgs)
    \/ deletePet(P1, PetIds)
    \/ Settled(P1)

SeqSpec == Init /\ [][SeqNext]_vars

\* the writes of one request after the other, and the lookups of two
\* requests; no write runs while the second request is looking up or holds
\* what it found
ReadNext ==
    \/ /\ req[P2].pc = "idle"
       /\ \/ createCategory(P1, [name : {<<"a">>, <<" ", "a">>, <<"b", " ">>}])
          \/ deleteCategory(P1, 1..MaxCatId)
          \/ createPet(P1, RacingPetInputs)
          \/ deletePet(P1, 1..MaxPetId)
    \/ \E p \in Procs :
        \/ getPetById(p, PetIdArgs)
        \/ getCategoryById(p, CategoryIds)
        \/ Settled(p)

ReadSpec == Init /\ [][ReadNext]_vars


\* the objects of `objs`, each also with property f set to a value of `values`
Optional(objs, f, values) == objs \cup {With(o, f, v) : o \in objs, v \in values}

\* updatePet arguments with any of name, status and categoryId
FullPetUpdates ==
    Optional(Optional(Optional([id : 1..MaxPetId], "name", {"Balu"}),
                      "status", {"sold"}),
             "categoryId", CategoryRefs)

\* PUT /pet bodies with any of id, name, status and category
PetBodies ==
    Optional(Optional(Optional({<<>>} \cup [id : 0..MaxPetId], "name", {"Balu"}),
                      "status", {"sold", "lost"}),
             "category", {<<>>} \cup [id : 1..MaxCatId])

\* one request after the other, to a service method or to an operation
\* handler, over a store that may be out of reach
HandlerNext ==
    \/ createCategory(P1, [name : {<<"a">>}])
    \/ createPet(P1, RacingPetInputs)
    \/ Direct(P1) /\ updatePet(P1, FullPetUpdates)
    \/ OpenAPIServiceHandler_updatePet(P1, PetBodies)
    \/ OpenAPIServiceHandler_findPetsByStatus(P1, StatusArgs)
    \/ Unreachable(P1)
    \/ Settled(P1)

HandlerSpec == Init /\ [][HandlerNext]_vars

-----------------------------------------------------------------------------
(* The contract dispatcher (fastify-openapi-glue over the interface         *)
(* document) and the error handler set on the application.                  *)

\* process.env['NODE_ENV']; "" when it is not set
Environments == {"", "development", "production"}

\* the failures the validator reports for `body` under the input schema the
\* interface document declares for `operation`: a pet's name is required
SchemaFailures(operation, body) ==
    IF operation = "addPet" /\ ~Has(body, "name")
    THEN <<[instancePath |-> "", keyword |-> "required",
            message |-> "must have required property 'name'"]>>
    ELSE <<>>

Valid(operation, Bodies) == {body \in Bodies : SchemaFailures(operation, body) = <<>>}

\* the error the framework raises for a request that fails validation
ValidationFailure(failures) ==
    [name |-> "Error", code |-> "FST_ERR_VALIDATION", statusCode |-> 400,
     message |-> "body must have required property", validation |-> failures]

\* { ...error }: the enumerable properties of the error itself; message and
\* stack are not enumerable, and the name of a plain Error is inherited
Spread(error) ==
    Pick(error, DOMAIN error \ ({"message", "stack"}
                    \cup (IF error.name = "Error" THEN {"name"} ELSE {})))

\* an error handler that treats a validation failure as any other error
errorHandler_noValidationBranch(error, NODE_ENV) ==
    IF IsAppError(error)
    THEN [status |-> error.statusCode,
          body |-> [code |-> error.code, message |-> error.message,
                    details |-> error.details]]
    ELSE LET statusCode == IF Has(error, "statusCode") /\ error.statusCode # 0
                           THEN error.statusCode ELSE 500
             response ==
                [code |-> IF Has(error, "code") /\ error.code # ""
                          THEN error.code ELSE "INTERNAL_SERVER_ERROR",
                 message |-> IF statusCode = 500 THEN "Internal server error"
                             ELSE error.message]
         IN  [status |-> statusCode, body |-> response]

\* errorHandler(error, request, reply): what it sends
errorHandler(error, NODE_ENV) ==
    IF IsAppError(error)
    THEN [status |-> error.statusCode,
          body |-> [code |-> error.code, message |-> error.message,
                    details |-> error.details]]
    ELSE IF Has(error, "validation") /\ error.validation # <<>>
    THEN [status |-> 400,
          body |-> [code |-> "VALIDATION_ERROR",
                    message |-> "Request validation failed",
                    details |-> error.validation]]
    ELSE IF error.name = "PrismaClientKnownRequestError" /\ error.code = "P2002"
    THEN [status |-> 409,
          body |-> LET response == [code |-> "DUPLICATE_ENTRY",
                                    message |-> "A record with this value already exists"]
                   IN  IF Has(error, "meta") THEN With(response, "details", error.meta)
                       ELSE response]
    ELSE IF error.name = "PrismaClientKnownRequestError" /\ error.code = "P2025"
    THEN [status |-> 404,
          body |-> [code |-> "NOT_FOUND", message |-> "Record not found"]]
    ELSE LET statusCode == IF Has(error, "statusCode") /\ error.statusCode # 0
                           THEN error.statusCode ELSE 500
             response ==
                [code |-> IF Has(error, "code") /\ error.code # ""
                          THEN error.code ELSE "INTERNAL_SERVER_ERROR",
                 message |-> IF statusCode = 500 THEN "Internal server error"
                             ELSE error.message]
         IN  [status |-> statusCode,
              body |-> IF NODE_ENV = "development"
                       THEN With(response, "details",
                                 With(Spread(error), "stack", "Error: at ..."))
                       ELSE response]

\* a request answered by the error handler of the application: no operation
\* handler has run for it
Answered(operation, body, NODE_ENV, sent) ==
    [pc |-> "done", op |-> "", operation |-> operation, body |-> body,
     NODE_ENV |-> NODE_ENV, calls |-> <<>>, result |-> NULL, sent |-> sent]

\* a request whose body fails the input schema of its operation: the
\* framework passes the validation failure to the error handler
ContractDispatcher_reject(p, operation, Bodies) ==
    /\ req[p].pc = "idle"
    /\ \E body \in Bodies, NODE_ENV \in Environments :
         /\ SchemaFailures(operation, body) # <<>>
         /\ req' = [req EXCEPT ![p] =
                Answered(operation, body, NODE_ENV,
                    errorHandler(ValidationFailure(SchemaFailures(operation, body)),
                                 NODE_ENV))]
    /\ UNCHANGED store

\* app.setErrorHandler(errorHandler): an error raised for a request outside
\* the operation handlers is passed to errorHandler
setErrorHandler(p, Errors) ==
    /\ req[p].pc = "idle"
    /\ \E error \in Errors, NODE_ENV \in Environments :
         req' = [req EXCEPT ![p] =
            Answered("", NULL, NODE_ENV, errorHandler(error, NODE_ENV))]
    /\ UNCHANGED store

\* errors of the framework and its plugins: a hook that throws, a request
\* with a content type no parser takes
FrameworkErrors ==
    {[name |-> "Error", message |-> "hook failed"],
     [name |-> "FastifyError", code |-> "FST_ERR_CTP_INVALID_MEDIA_TYPE",
      statusCode |-> 415, message |-> "Unsupported Media Type"]}

\* POST /pet bodies with any of name, status and category
AddPetBodies ==
    Optional(Optional(Optional({<<>>}, "name", {"Rex"}), "status", {"sold"}),
             "category", {<<>>} \cup [id : 1..MaxCatId])

\* PUT /pet bodies with any of id, name and category
PutPetBodies ==
    Optional(Optional({<<>>} \cup [id : 0..MaxPetId], "name", {"Balu"}),
             "category", [id : 1..MaxCatId])

\* petId path values: "0", "1", "2", "-1", "a", "1a", " 2" and "1.5"
PetIdParams ==
    [petId : {<<"0">>, <<"1">>, <<"2">>, <<"-", "1">>, <<"a">>, <<"1", "a">>,
              <<" ", "2">>, <<"1", ".", "5">>}]

\* POST /pet/{petId} with any of the query's name and status
FormParams ==
    Optional(Optional([petId : {<<"1">>, <<"a">>}], "name", {"Balu"}),
             "status", {"pending", "lost"})

\* POST /category and PUT /category bodies
AddCategoryBodies == {<<>>} \cup [name : {<<"a">>, <<"b", " ">>, <<" ">>}]
PutCategoryBodies == Optional({<<>>} \cup [id : 0..MaxCatId], "name", {<<"b">>})

\* one request after the other through the dispatcher
ApiNext ==
    \/ ContractDispatcher_reject(P1, "addPet", AddPetBodies)
    \/ setErrorHandler(P1, FrameworkErrors)
    \/ OpenAPIServiceHandler_addPet(P1, Valid("addPet", AddPetBodies))
    \/ OpenAPIServiceHandler_updatePet(P1, PutPetBodies)
    \/ OpenAPIServiceHandler_findPetsByStatus(P1, StatusArgs)
    \/ OpenAPIServiceHandler_getPetById(P1, PetIdParams)
    \/ OpenAPIServiceHandler_updatePetWithForm(P1, FormParams)
    \/ OpenAPIServiceHandler_deletePet(P1, PetIdParams)
    \/ OpenAPIServiceHandler_addCategory(P1, AddCategoryBodies)
    \/ OpenAPIServiceHandler_updateCategory(P1, PutCategoryBodies)
    \/ OpenAPIServiceHandler_getAllCategories(P1)
    \/ Settled(P1)

ApiSpec == Init /\ [][ApiNext]_vars

\* every operation of both services by one request, raced by the deletes of
\* a second request, over a store that may be out of reach
AllNext ==
    \/ createCategory(P1, [name : {<<"a">>, <<" ">>}])
    \/ updateCategory(P1, [id : 0..1, name : {<<"a">>, <<"b">>}])
    \/ getAllCategories(P1)
    \/ getCategoryById(P1, 0..1)
    \/ getCategoryWithPets(P1, 0..1)
    \/ createPet(P1, WithOptions([name : {"Rex"}], {"lost"}, {<<1>>}))
    \/ updatePet(P1, WithOptions([id : {1}], {"lost"}, {<<1>>}))
    \/ findPetsByStatus(P1, {<<>>, [status |-> "lost"]})
    \/ getPetById(P1, {Integer(1), NaN})
    \/ getAllPets(P1)
    \/ \E p \in Procs :
        \/ deleteCategory(p, 0..1)
        \/ deletePet(p, 0..1)
        \/ Unreachable(p)
        \/ Settled(p)

AllSpec == Init /\ [][AllNext]_vars

\* one request after the other through operation handlers, over a store
\* that may be out of reach
LiveNext ==
    \/ OpenAPIServiceHandler_addCategory(P1, [name : {<<"a">>}])
    \/ OpenAPIServiceHandler_addPet(P1, Valid("addPet", AddPetBodies))
    \/ OpenAPIServiceHandler_updatePet(P1, PutPetBodies)
    \/ OpenAPIServiceHandler_findPetsByStatus(P1, StatusArgs)
    \/ OpenAPIServiceHandler_getPetById(P1, PetIdParams)
    \/ Unreachable(P1)
    \/ Settled(P1)

\* every storage call a request awaits returns or fails in the end
LiveSpec ==
    /\ Init
    /\ [][LiveNext]_vars
    /\ WF_vars(req[P1].pc \notin {"idle", "done"} /\ LiveNext)

-----------------------------------------------------------------------------
(* Properties *)

Done(p, op) == req[p].pc = "done" /\ req[p].op = op
Failed(p, code, statusCode) ==
    /\ ~req[p].result.ok
    /\ req[p].result.error.code = code
    /\ req[p].result.error.statusCode = statusCode
Steps(p) == req'[p] # req[p]
LastCall(r) == IF r.calls = <<>> THEN "" ELSE r.calls[Len(r.calls)]

\* C1: under concurrent createCategory and updateCategory requests (each an
\* advisory read followed by a separate write, the table carrying its unique
\* index), no two stored categories ever have the same name.
C1_UniqueCategoryNames ==
    \A a \in categories, b \in categories : a.id # b.id => a.name # b.name

\* a write that passed its advisory read was turned down by the index, and
\* two categories are stored
C1_Witness ==
    /\ Cardinality(categories) = 2
    /\ \E p \in Procs :
        /\ req[p].pc = "done"
        /\ req[p].op \in {"createCategory", "updateCategory"}
        /\ LastCall(req[p]) \in {"category.create", "category.update"}
        /\ Failed(p, "VALIDATION_ERROR", 422)

\* the error of a createCategory that finds its name taken
C2_Expected(data) ==
    [name |-> "ValidationError", code |-> "VALIDATION_ERROR",
     message |-> "Category with this name already exists", statusCode |-> 422,
     details |-> [name |-> data.name]]

\* C2: a createCategory whose name is already stored fails with the same
\* Validation error (VALIDATION_ERROR, 422, same message and details) whether
\* its advisory findFirst sees the stored category or its write is turned down
\* by the unique index; it stores nothing, and exactly one category has that
\* name.
C2_SecondCreateRejected ==
    [][\A p \in Procs :
        LET r == req[p]
            seen == /\ r.pc = "category.findFirst"
                    /\ \E c \in categories : c.name = r.data.name
            rejected == /\ r.pc = "category.create"
                        /\ \E c \in categories : c.name = Trim(r.data.name)
        IN  (r.pc \in {"category.findFirst", "category.create"}
                /\ r.op = "createCategory" /\ Steps(p) /\ (seen \/ rejected))
            => /\ req'[p].pc = "done"
               /\ req'[p].result = [ok |-> FALSE, error |-> C2_Expected(r.data)]
               /\ categories' = categories
               /\ Cardinality({c \in categories' : c.name = Trim(r.data.name)}) = 1
    ]_vars

\* two requests with the same name passed the advisory read; the first write
\* stored the category, the second was turned down by the index
C2_Witness ==
    \E p \in Procs, q \in Procs :
        /\ Done(p, "createCategory") /\ Done(q, "createCategory")
        /\ req[p].data = req[q].data
        /\ req[q].result.ok
        /\ req[p].calls = <<"category.findFirst", "category.create">>
        /\ req[p].result = [ok |-> FALSE, error |-> C2_Expected(req[p].data)]

\* C3: deleteCategory removes a category row only when no stored pet
\* references it, in every interleaving with createPet and updatePet, and so
\* never changes a stored pet's categoryId.
C3_DeleteOnlyUnreferenced ==
    [][\A c \in categories \ categories' :
        /\ \A pet \in pets : pet.categoryId # <<c.id>>
        /\ pets' = pets
    ]_vars

\* C5: under concurrent createPet, updatePet, deletePet, createCategory and
\* deleteCategory requests every stored pet's categoryId is null or the id of
\* a stored category, and every row a pet write stores refers, when it is
\* written, to null or to a category stored at that moment.
C5_CategoryRefsValid ==
    /\ [](\A pet \in pets :
            pet.categoryId = NULL \/ \E c \in categories : pet.categoryId = <<c.id>>)
    /\ [][\A pet \in pets' \ pets :
            pet.categoryId = NULL \/ \E c \in categories : pet.categoryId = <<c.id>>
       ]_vars

\* a pet write that passed its category check was turned down by the foreign
\* key, the category having been deleted in between
C5_Witness ==
    \E p \in Procs :
        /\ req[p].pc = "done"
        /\ req[p].op \in {"createPet", "updatePet"}
        /\ LastCall(req[p]) \in {"pet.create", "pet.update"}
        /\ ~req[p].result.ok
        /\ req[p].result.error.message \in {"Failed to create pet", "Failed to update pet"}
        /\ \E pet \in pets : pet.categoryId # NULL

StatusEnum == {"available", "pending", "sold"}
References(id) == {pet \in pets : pet.categoryId = <<id>>}
Stored(rows, id) == \E row \in rows : row.id = id

\* C4: with one request at a time, deleteCategory(id) of a stored category
\* that n >= 1 pets reference fails with Validation, details.petCount = n,
\* and changes nothing; of a stored category no pet references it succeeds
\* and removes just that category; and getCategoryById of an id that is not
\* stored fails with NotFound.
C4_DeleteCategory ==
    [][LET r == req[P1]
           checks == r.pc = "category.findUnique" /\ r.op = "deleteCategory" /\ Steps(P1)
           deletes == r.pc = "category.delete" /\ r.op = "deleteCategory" /\ Steps(P1)
           gets == r.pc = "category.findUnique" /\ r.op = "getCategoryById" /\ Steps(P1)
           after == req'[P1]
       IN  /\ (checks /\ Stored(categories, r.data) /\ References(r.data) # {})
                => /\ after.pc = "done"
                   /\ ~after.result.ok
                   /\ after.result.error.code = "VALIDATION_ERROR"
                   /\ after.result.error.statusCode = 422
                   /\ after.result.error.details.petCount = Cardinality(References(r.data))
                   /\ UNCHANGED store
           /\ (checks /\ Stored(categories, r.data) /\ References(r.data) = {})
                => after.pc = "category.delete" /\ UNCHANGED store
           /\ deletes
                => /\ Stored(categories, r.data)
                   /\ after.pc = "done"
                   /\ after.result.ok
                   /\ categories' = {c \in categories : c.id # r.data}
                   /\ UNCHANGED <<pets, catSeq, petSeq>>
           /\ (gets /\ ~Stored(categories, r.data))
                => /\ after.pc = "done"
                   /\ ~after.result.ok
                   /\ after.result.error.code = "NOT_FOUND"
                   /\ after.result.error.statusCode = 404
                   /\ UNCHANGED store
    ]_vars

\* deleteCategory has failed on a category that pets reference
C4_Witness ==
    /\ Done(P1, "deleteCategory")
    /\ Failed(P1, "VALIDATION_ERROR", 422)
    /\ "petCount" \in DOMAIN req[P1].result.error.details
    /\ req[P1].result.error.details.petCount >= 1
    /\ req[P1].result.error.details.petCount = Cardinality(References(req[P1].data))

\* C6: createPet with a status string outside {available, pending, sold}
\* fails with Validation and stores no pet; a createPet that omits status and
\* succeeds stores and returns status 'available'.
C6_CreatePetStatus ==
    /\ [](Done(P1, "createPet") =>
            LET r == req[P1]
            IN  /\ (Has(r.data, "status") /\ r.data.status \notin StatusEnum)
                      => Failed(P1, "VALIDATION_ERROR", 422)
                /\ (~Has(r.data, "status") /\ r.result.ok)
                      => /\ r.result.value.status = "available"
                         /\ \E pet \in pets :
                              pet.id = r.result.value.id /\ pet.status = "available")
    /\ [][(req'[P1].pc # "idle" /\ req'[P1].op = "createPet"
             /\ Has(req'[P1].data, "status") /\ req'[P1].data.status \notin StatusEnum)
          => pets' = pets]_vars

\* C7: every stored pet's status is one of available, pending, sold.
C7_StoredStatusInEnum == \A pet \in pets : pet.status \in StatusEnum

RefersToMissingCategory(data) ==
    /\ Has(data, "categoryId")
    /\ data.categoryId # NULL
    /\ \A c \in categories : data.categoryId # <<c.id>>

\* with one request at a time: a createPet or updatePet whose categoryId is a
\* non-null id no stored category has changes neither pets nor categories
\* and, when it ends, has failed with Validation; `ofStoredPet` restricts
\* updatePet to the ids of stored pets
C8_Step(ofStoredPet) ==
       LET r == req[P1]
           after == req'[P1]
       IN  (/\ r.pc \notin {"idle", "done"}
            /\ r.op \in {"createPet", "updatePet"}
            /\ Steps(P1)
            /\ RefersToMissingCategory(r.data)
            /\ (ofStoredPet /\ r.op = "updatePet") => Stored(pets, r.data.id))
           => /\ UNCHANGED <<categories, pets>>
              /\ after.pc = "done"
                   => /\ ~after.result.ok
                      /\ after.result.error.code = "VALIDATION_ERROR"
                      /\ after.result.error.statusCode = 422

\* C8 as claimed: every createPet and every updatePet input whose categoryId
\* is a non-null id that no stored category has fails with Validation and
\* leaves the stored pets and categories as they were.
C8_MissingCategoryAnyInput == [][C8_Step(FALSE)]_vars

\* C8 as amended: the same for every createPet input and for every updatePet
\* input whose id is that of a stored pet.
C8_MissingCategoryOfStoredPet == [][C8_Step(TRUE)]_vars

\* updatePet of a stored pet has failed on a category that is not stored
C8_Witness ==
    /\ Done(P1, "updatePet")
    /\ Stored(pets, req[P1].data.id)
    /\ RefersToMissingCategory(req[P1].data)
    /\ Failed(P1, "VALIDATION_ERROR", 422)
    /\ req[P1].result.error.message = "Category not found"

\* C9: findPetsByStatus with a status string outside {available, pending,
\* sold} fails with BadRequest (BAD_REQUEST, 400), not Validation, and issues
\* no storage call.
C9_InvalidStatusIsBadRequest ==
    LET r == req[P1]
    IN  (/\ r.pc # "idle"
         /\ r.op = "findPetsByStatus"
         /\ Has(r.data, "status")
         /\ r.data.status \notin StatusEnum)
        => /\ r.pc = "done"
           /\ Failed(P1, "BAD_REQUEST", 400)
           /\ r.result.error.name = "BadRequestError"
           /\ r.calls = <<>>

C9_Witness ==
    /\ Done(P1, "findPetsByStatus")
    /\ Has(req[P1].data, "status")
    /\ req[P1].data.status = "lost"
    /\ Failed(P1, "BAD_REQUEST", 400)
    /\ pets # {}

IsPositiveInteger(x) == Has(x, "int") /\ x.int >= 1

\* C11: getPetById(id) fails with BadRequest, without reading storage, when
\* id is not an integer >= 1 (negative, zero, fractional or NaN); fails with
\* NotFound when id is a positive integer no stored pet has; otherwise it
\* returns the stored pet with that id joined with its category.
C11_GetPetById ==
    LET r == req[P1]
    IN  (r.pc # "idle" /\ r.op = "getPetById") =>
            /\ ~IsPositiveInteger(r.data)
                 => /\ r.pc = "done"
                    /\ Failed(P1, "BAD_REQUEST", 400)
                    /\ r.calls = <<>>
            /\ (r.pc = "done" /\ IsPositiveInteger(r.data) /\ ~Stored(pets, r.data.int))
                 => Failed(P1, "NOT_FOUND", 404)
            /\ (r.pc = "done" /\ IsPositiveInteger(r.data) /\ Stored(pets, r.data.int))
                 => /\ r.result.ok
                    /\ \E pet \in pets :
                         /\ pet.id = r.data.int
                         /\ r.result.value.id = pet.id
                         /\ r.result.value.name = pet.name
                         /\ r.result.value.status = pet.status
                         /\ r.result.value.categoryId = pet.categoryId
                         /\ IF pet.categoryId = NULL
                            THEN r.result.value.category = NULL
                            ELSE /\ r.result.value.category \in categories
                                 /\ <<r.result.value.category.id>> = pet.categoryId

\* getPetById(1.5) has failed with BadRequest while pet 1 is stored
C11_WitnessFraction ==
    /\ Done(P1, "getPetById")
    /\ req[P1].data = Between(1)
    /\ Failed(P1, "BAD_REQUEST", 400)
    /\ Stored(pets, 1)

Lookups == {"getPetById", "getCategoryById"}

\* C12: two getPetById(id) calls, and two getCategoryById(id) calls, with no
\* write between them have the same outcome, and no step of such a call
\* changes the stored pets or categories.
C12_LookupsRepeat ==
    /\ [](\A p \in Procs, q \in Procs :
            (/\ req[p].pc = "done" /\ req[q].pc = "done"
             /\ req[p].op \in Lookups /\ req[q].op = req[p].op
             /\ req[q].data = req[p].data)
            => req[q].result = req[p].result)
    /\ [][\A p \in Procs :
            (Steps(p) /\ req'[p].pc # "idle" /\ req'[p].op \in Lookups)
            => UNCHANGED store]_vars

\* both requests have looked up the same stored pet, which has a category
C12_Witness ==
    /\ Done(P1, "getPetById") /\ Done(P2, "getPetById")
    /\ req[P1].data = req[P2].data
    /\ req[P1].result.ok /\ req[P2].result.ok
    /\ req[P1].result.value.category # NULL

NoOuterSpace(t) == t = <<>> \/ (t[1] # " " /\ t[Len(t)] # " ")

\* t is s without its leading and trailing spaces
IsTrimOf(t, s) ==
    /\ NoOuterSpace(t)
    /\ \E i \in 1..Len(s) + 1, j \in 0..Len(s) :
        /\ t = SubSeq(s, i, j)
        /\ \A k \in 1..(i - 1) : s[k] = " "
        /\ \A k \in (j + 1)..Len(s) : s[k] = " "

\* C13: createCategory({name}) with a name that is non-empty after trimming
\* and not in use succeeds; the category it returns has a positive id that no
\* category had before and no other category has, and getCategoryById of
\* that id then returns a category whose name is the input without its
\* leading and trailing whitespace.
C13_CreateThenGet ==
    /\ [](Done(P1, "createCategory") =>
            LET r == req[P1]
                unused == \A c \in categories : ~IsTrimOf(c.name, r.data.name)
            IN  /\ (\E t \in CategoryNames : t # <<>> /\ IsTrimOf(t, r.data.name) /\ unused)
                     => r.result.ok
                /\ r.result.ok =>
                     /\ r.result.value.id >= 1
                     /\ {c \in categories : c.id = r.result.value.id} = {r.result.value}
                     /\ \A q \in Procs :
                          (Done(q, "getCategoryById") /\ req[q].data = r.result.value.id)
                          => /\ req[q].result.ok
                             /\ req[q].result.value.id = r.result.value.id
                             /\ IsTrimOf(req[q].result.value.name, r.data.name))
    /\ [][\A c \in categories' \ categories :
            c.id >= 1 /\ \A old \in categories : old.id # c.id]_vars

\* createCategory({name: ' a'}) has returned and getCategoryById of the
\* returned id has found the name 'a'
C13_Witness ==
    /\ Done(P1, "createCategory")
    /\ req[P1].data.name = <<" ", "a">>
    /\ req[P1].result.ok
    /\ Done(P2, "getCategoryById")
    /\ req[P2].data = req[P1].result.value.id
    /\ req[P2].result.ok
    /\ req[P2].result.value.name = <<"a">>

Row(rows, id) == CHOOSE row \in rows : row.id = id

\* C14: a successful PetService.updatePet changes only the fields its input
\* supplies: each of name, status and categoryId that is omitted keeps its
\* stored value, each that is supplied takes the supplied value (a categoryId
\* of null sets the reference to null), and no other pet and no category
\* changes.
C14_UpdateChangesSuppliedOnly ==
    [][LET r == req[P1]
           after == req'[P1]
       IN  (/\ r.pc = "pet.update" /\ r.op = "updatePet" /\ Steps(P1)
            /\ after.result # NULL /\ after.result.ok)
           => /\ Stored(pets, r.data.id) /\ Stored(pets', r.data.id)
              /\ LET old == Row(pets, r.data.id)
                     new == Row(pets', r.data.id)
                 IN  /\ \A f \in {"name", "status", "categoryId"} :
                          new[f] = IF Has(r.data, f) THEN r.data[f] ELSE old[f]
                     /\ new.createdAt = old.createdAt
                     /\ pets' \ {new} = pets \ {old}
              /\ UNCHANGED <<categories, catSeq, petSeq>>
    ]_vars

\* updatePet({id, name}) has renamed a pet that keeps its status 'sold' and
\* its category
C14_Witness ==
    /\ Done(P1, "updatePet")
    /\ DOMAIN req[P1].data = {"id", "name"}
    /\ req[P1].result.ok
    /\ req[P1].result.value.name = "Balu"
    /\ req[P1].result.value.status = "sold"
    /\ req[P1].result.value.categoryId # NULL

\* C15: a PUT /pet whose body carries id and name and/or status but no
\* category field leaves the pet's stored category reference as it was.
C15_NoCategoryFieldKeepsCategory ==
    [][LET r == req[P1]
       IN  (/\ Via(P1, "updatePet") /\ Steps(P1)
            /\ ~Has(r.body, "category"))
           => \A pet \in pets :
                \E new \in pets' : new.id = pet.id /\ new.categoryId = pet.categoryId
    ]_vars

PastCheck(r) == r.calls = <<"pet.findUnique", "pet.delete">>

\* C16: of two deletePet(id) requests that both passed the existence check
\* of the same pet, exactly one succeeds and the other fails with NotFound
\* (NOT_FOUND, 404); and a deletePet or updatePet whose pet is no longer
\* stored when its write runs fails with NotFound and changes nothing.
C16_LostRaceIsNotFound ==
    /\ [](\A p \in Procs, q \in Procs :
            (/\ p # q
             /\ Done(p, "deletePet") /\ Done(q, "deletePet")
             /\ req[p].data = req[q].data
             /\ PastCheck(req[p]) /\ PastCheck(req[q]))
            => /\ req[p].result.ok # req[q].result.ok
               /\ ~req[p].result.ok =>
                    /\ Failed(p, "NOT_FOUND", 404)
                    /\ req[p].result.error.name = "NotFoundError")
    /\ [][\A p \in Procs :
            LET r == req[p]
                after == req'[p]
                id == IF r.op = "deletePet" THEN r.data ELSE r.data.id
            IN  (/\ r.pc \in {"pet.delete", "pet.update"}
                 /\ r.op \in {"deletePet", "updatePet"}
                 /\ Steps(p)
                 /\ ~Stored(pets, id))
                => /\ after.pc = "done"
                   /\ ~after.result.ok
                   /\ after.result.error.name = "NotFoundError"
                   /\ after.result.error.code = "NOT_FOUND"
                   /\ after.result.error.statusCode = 404
                   /\ UNCHANGED store
       ]_vars

\* both requests passed the check of the same pet; one has deleted it, the
\* other has failed with NotFound
C16_Witness ==
    /\ Done(P1, "deletePet") /\ Done(P2, "deletePet")
    /\ req[P1].data = req[P2].data
    /\ PastCheck(req[P1]) /\ PastCheck(req[P2])
    /\ req[P1].result.ok
    /\ Failed(P2, "NOT_FOUND", 404)

Blank(data) == ~Has(data, "name") \/ \A i \in 1..Len(data.name) : data.name[i] = " "

\* request r has ended with the error (code, statusCode)
EndsWith(r, code, statusCode) ==
    /\ r.pc = "done"
    /\ ~r.result.ok
    /\ r.result.error.code = code
    /\ r.result.error.statusCode = statusCode

\* C17: updateCategory(id, {name}) fails with BadRequest if id is not an
\* integer >= 1; else with Validation if name is empty or whitespace-only,
\* both before any storage call; else with NotFound if no category has that
\* id; else with Validation if a category with another id has that name;
\* else it stores the trimmed name.  A rename to the category's own name
\* succeeds, and a category deleted between the existence check and the
\* write yields NotFound.
C17_UpdateCategoryPrecedence ==
    [][\A p \in Procs :
        LET r == req[p]
            after == req'[p]
            d == after.data
            others(name) == {c \in categories : c.id # d.id /\ c.name = name}
            calls == r.pc = "idle" /\ after.pc # "idle"
            at(call) == r.pc = call
        IN  (Steps(p) /\ after.pc # "idle" /\ after.op = "updateCategory") =>
            /\ (calls /\ d.id < 1)
                 => EndsWith(after, "BAD_REQUEST", 400) /\ after.calls = <<>>
            /\ (calls /\ d.id >= 1 /\ Blank(d))
                 => EndsWith(after, "VALIDATION_ERROR", 422) /\ after.calls = <<>>
            /\ (calls /\ d.id >= 1 /\ ~Blank(d))
                 => after.pc = "category.findUnique"
            /\ (at("category.findUnique") /\ ~Stored(categories, d.id))
                 => EndsWith(after, "NOT_FOUND", 404)
            /\ (at("category.findUnique") /\ Stored(categories, d.id))
                 => after.pc = "category.findFirst"
            /\ (at("category.findFirst") /\ others(d.name) # {})
                 => EndsWith(after, "VALIDATION_ERROR", 422)
            /\ (at("category.findFirst") /\ others(d.name) = {})
                 => after.pc = "category.update"
            /\ (at("category.update") /\ ~Stored(categories, d.id))
                 => EndsWith(after, "NOT_FOUND", 404)
            /\ (at("category.update") /\ Stored(categories, d.id)
                    /\ \E c \in categories : c.id # d.id /\ IsTrimOf(c.name, d.name))
                 => EndsWith(after, "VALIDATION_ERROR", 422)
            /\ (at("category.update") /\ Stored(categories, d.id)
                    /\ ~\E c \in categories : c.id # d.id /\ IsTrimOf(c.name, d.name))
                 => /\ after.pc = "done" /\ after.result.ok
                    /\ IsTrimOf(after.result.value.name, d.name)
                    /\ after.result.value.id = d.id
                    /\ categories' = {c \in categories : c.id # d.id}
                                          \cup {after.result.value}
            /\ after.pc = "done" /\ ~after.result.ok => categories' = categories
    ]_vars

\* an updateCategory found its category and no duplicate, and its write
\* failed with NotFound because the category had been deleted
C17_Witness ==
    \E p \in Procs :
        /\ Done(p, "updateCategory")
        /\ req[p].calls = <<"category.findUnique", "category.findFirst", "category.update">>
        /\ Failed(p, "NOT_FOUND", 404)

\* what the write request r awaits does to the store
WriteOf(r) ==
    IF r.pc = "pet.create" THEN PetCreate(createPetData(r.data))
    ELSE IF r.pc = "pet.update"
    THEN PetUpdate(r.data.id, Pick(r.data, {"name", "status", "categoryId"}))
    ELSE IF r.pc = "pet.delete" THEN PetDelete(r.data)
    ELSE IF r.pc = "category.create" THEN CategoryCreate(Trim(r.data.name))
    ELSE IF r.pc = "category.update" THEN CategoryUpdate(r.data.id, Trim(r.data.name))
    ELSE CategoryDelete(r.data)

Writes ==
    {"pet.create", "pet.update", "pet.delete",
     "category.create", "category.update", "category.delete"}

\* C18: a storage call that fails with an error other than a unique
\* constraint violation (P2002) or a missing row on write (P2025) reaches
\* the client as status 500 with code INTERNAL_ERROR, never as status 422 or
\* code VALIDATION_ERROR.
C18_StorageFailureIsInternal ==
    [][\A p \in Procs :
        LET r == req[p]
        IN  (/\ r.pc \in Writes /\ Steps(p)
             /\ WriteOf(r).error # NULL
             /\ WriteOf(r).error.code \notin {"P2002", "P2025"})
            => /\ req'[p].pc = "done"
               /\ ~req'[p].result.ok
               /\ handleError(req'[p].result.error).status = 500
               /\ handleError(req'[p].result.error).body.code = "INTERNAL_ERROR"
    ]_vars

\* codes of known request errors
KnownRequestErrorCodes == {"P2002", "P2003", "P2025", "P2000", "P2024"}

\* C19: a known request error raised by prisma.pet.create inside createPet,
\* whatever its code, leaves createPet as a ValidationError; the storage
\* error object itself never does.
C19_CreatePetCatchesKnownErrors ==
    /\ \A code \in KnownRequestErrorCodes :
        \A data \in RacingPetInputs :
            LET thrown == createPetCatch(PrismaClientKnownRequestError(code, "m"), data)
            IN  /\ thrown.name = "ValidationError"
                /\ thrown.code = "VALIDATION_ERROR"
                /\ thrown.statusCode = 422
    /\ \A p \in Procs :
        Done(p, "createPet") =>
            /\ ~req[p].result.ok => req[p].result.error.name = "ValidationError"
            /\ (LastCall(req[p]) = "pet.create" /\ ~req[p].result.ok)
                 => req[p].result.error.message = "Failed to create pet"

\* createPet's write was turned down by the store and createPet has thrown
\* ValidationError('Failed to create pet')
C19_Witness ==
    \E p \in Procs :
        /\ Done(p, "createPet")
        /\ LastCall(req[p]) = "pet.create"
        /\ ~req[p].result.ok
        /\ req[p].result.error.name = "ValidationError"
        /\ req[p].result.error.message = "Failed to create pet"
        /\ pets = {}

\* the (code, status) of each typed failure
Typed ==
    [NotFoundError |-> [code |-> "NOT_FOUND", status |-> 404],
     ValidationError |-> [code |-> "VALIDATION_ERROR", status |-> 422],
     BadRequestError |-> [code |-> "BAD_REQUEST", status |-> 400]]

\* C20: for a failure caught by an operation handler the reply depends on
\* the failure alone: a NotFound, Validation or BadRequest failure is sent
\* with its own status (404, 422, 400) and the body {code, message, details}
\* of the failure; any other failure is sent with status 500 and the body
\* {code: INTERNAL_ERROR, message: 'An unexpected error occurred'}, which has
\* no details.
C20_ReplyFollowsFailure ==
    LET r == req[P1]
    IN  (r.pc = "done" /\ Has(r, "handler") /\ ~Has(r, "sent") /\ ~r.result.ok) =>
            LET error == r.result.error
            IN  IF error.name \in DOMAIN Typed
                THEN /\ reply(r).status = Typed[error.name].status
                     /\ reply(r).body =
                            [code |-> Typed[error.name].code,
                             message |-> error.message,
                             details |-> error.details]
                ELSE /\ reply(r).status = 500
                     /\ reply(r).body =
                            [code |-> "INTERNAL_ERROR",
                             message |-> "An unexpected error occurred"]
                     /\ ~Has(reply(r).body, "details")

\* the store was out of reach for the write of a PUT /pet, which has been
\* answered with status 500
C20_Witness ==
    /\ Via(P1, "updatePet")
    /\ req[P1].pc = "done"
    /\ LastCall(req[P1]) = "pet.update"
    /\ ~req[P1].result.ok
    /\ req[P1].result.error.name = "PrismaClientInitializationError"
    /\ reply(req[P1]).status = 500

\* C25: under any createCategory and updateCategory calls, every stored
\* category name is non-empty and has no leading or trailing whitespace, and
\* a call whose name is empty or whitespace-only fails with Validation and
\* stores nothing.
C25_StoredNamesTrimmed ==
    /\ [](\A c \in categories : c.name # <<>> /\ NoOuterSpace(c.name))
    /\ [][\A p \in Procs :
            (/\ Steps(p) /\ req'[p].pc # "idle"
             /\ req'[p].op \in {"createCategory", "updateCategory"}
             /\ Blank(req'[p].data)
             /\ req'[p].op = "updateCategory" => req'[p].data.id >= 1)
            => /\ EndsWith(req'[p], "VALIDATION_ERROR", 422)
               /\ req'[p].calls = <<>>
               /\ UNCHANGED store]_vars

\* 'b ' was given and 'b' is stored, and a call with the name ' ' has failed
C25_Witness ==
    /\ \E c \in categories : c.name = <<"b">>
    /\ \E p \in Procs :
        /\ req[p].pc = "done"
        /\ req[p].op \in {"createCategory", "updateCategory"}
        /\ req[p].data.name = <<" ">>
        /\ Failed(p, "VALIDATION_ERROR", 422)

\* the category the write of request r refers to is not stored
CategoryGone(r) ==
    /\ r.pc \in {"pet.create", "pet.update"}
    /\ r.op \in {"createPet", "updatePet"}
    /\ RefersToMissingCategory(r.data)
    /\ r.op = "updatePet" => Stored(pets, r.data.id)

\* C26: a createPet or updatePet whose category is deleted by a concurrent
\* deleteCategory after its category check and before its write fails with
\* a Validation error, as the check does for a missing category; no pet is
\* created or changed, and no pet refers to the deleted category.
C26_CategoryDeletedBeforeWrite ==
    [][\A p \in Procs :
        (CategoryGone(req[p]) /\ Steps(p))
        => /\ req'[p].pc = "done"
           /\ ~req'[p].result.ok
           /\ req'[p].result.error.name = "ValidationError"
           /\ req'[p].result.error.code = CategoryNotFound(req[p].data).code
           /\ req'[p].result.error.statusCode = CategoryNotFound(req[p].data).statusCode
           /\ pets' = pets
           /\ \A pet \in pets' : pet.categoryId # req[p].data.categoryId
    ]_vars

\* updatePet of a stored pet passed its category check, the category was
\* deleted, and the write has failed with Validation
C26_Witness ==
    \E p \in Procs :
        /\ Done(p, "updatePet")
        /\ req[p].calls = <<"pet.findUnique", "category.findUnique", "pet.update">>
        /\ Stored(pets, req[p].data.id)
        /\ RefersToMissingCategory(req[p].data)
        /\ Failed(p, "VALIDATION_ERROR", 422)

\* the four fixed (code, status) pairs
FixedPairs ==
    {<<"NOT_FOUND", 404>>, <<"VALIDATION_ERROR", 422>>,
     <<"BAD_REQUEST", 400>>, <<"INTERNAL_ERROR", 500>>}

\* C21: every error response of an operation handler, whether it reports a
\* caught failure or a check of the handler itself, carries one of the pairs
\* (NOT_FOUND, 404), (VALIDATION_ERROR, 422), (BAD_REQUEST, 400),
\* (INTERNAL_ERROR, 500).
C21_FixedCodeStatusPairs ==
    \A p \in Procs :
        (req[p].pc = "done" /\ Has(req[p], "handler") /\ reply(req[p]).status # 200)
        => <<reply(req[p]).body.code, reply(req[p]).status>> \in FixedPairs

PetHandlers == {"addPet", "updatePet", "updatePetWithForm", "getPetById"}

\* request r was taken by an operation handler whose service call succeeded
Succeeded(r) ==
    r.pc = "done" /\ Has(r, "handler") /\ ~Has(r, "sent") /\ r.result.ok

\* `body` shows stored pet `id`: its id, name and status and, only when the
\* pet references a category, that category's id and name
ShowsPet(body, id) ==
    /\ Stored(pets, id)
    /\ LET pet == Row(pets, id)
       IN  /\ body.id = pet.id /\ body.name = pet.name /\ body.status = pet.status
           /\ IF pet.categoryId = NULL
              THEN DOMAIN body = {"id", "name", "status"}
              ELSE /\ DOMAIN body = {"id", "name", "status", "category"}
                   /\ Stored(categories, pet.categoryId[1])
                   /\ body.category =
                        [id |-> pet.categoryId[1],
                         name |-> Row(categories, pet.categoryId[1]).name]

\* C23: a successful addPet, updatePet, updatePetWithForm or getPetById, and
\* each element of a successful findPetsByStatus, is sent with status 200 as
\* exactly id, name, status and, only when the pet references a category,
\* category = {id, name}; a pet added with no status and no category is shown
\* with status 'available' and no category.
C23_PetResponseShape ==
    \A p \in Procs :
        LET r == req[p]
        IN  Succeeded(r) =>
                /\ r.handler \in PetHandlers =>
                      /\ reply(r).status = 200
                      /\ Has(reply(r).body, "id")
                      /\ ShowsPet(reply(r).body, reply(r).body.id)
                /\ r.handler = "findPetsByStatus" =>
                      /\ reply(r).status = 200
                      /\ \A i \in DOMAIN reply(r).body :
                            /\ Has(reply(r).body[i], "id")
                            /\ ShowsPet(reply(r).body[i], reply(r).body[i].id)
                /\ (r.handler = "addPet" /\ DOMAIN r.body = {"name"}) =>
                      /\ DOMAIN reply(r).body = {"id", "name", "status"}
                      /\ reply(r).body.status = "available"

\* a pet has been added with a category and another with a name only, and a
\* search has returned a pet with its category
C23_Witness ==
    /\ \E p \in Procs :
        /\ Succeeded(req[p]) /\ req[p].handler = "findPetsByStatus"
        /\ \E i \in DOMAIN reply(req[p]).body : Has(reply(req[p]).body[i], "category")
    /\ \E pet \in pets : pet.categoryId = NULL /\ pet.status = "available"

\* request r is one the dispatcher turned down for its operation's schema
FailedSchema(r) ==
    Has(r, "operation") /\ SchemaFailures(r.operation, r.body) # <<>>

C24_No500Details ==
    \A p \in Procs :
        (req[p].pc = "done" /\ reply(req[p]).status = 500)
        => ~Has(reply(req[p]).body, "details")

\* the service method each operation handler calls
ServiceMethod ==
    [addPet |-> "createPet", updatePet |-> "updatePet",
     updatePetWithForm |-> "updatePet", findPetsByStatus |-> "findPetsByStatus",
     getPetById |-> "getPetById", deletePet |-> "deletePet",
     addCategory |-> "createCategory", updateCategory |-> "updateCategory",
     getAllCategories |-> "getAllCategories"]

\* the request of handler r.handler fails the handler's own check: a body
\* of updatePet or updateCategory without an id other than 0, or a petId that
\* does not parse to a number
ShapeCheckFails(r) ==
    \/ /\ r.handler \in {"updatePet", "updateCategory"}
       /\ (~Has(r.body, "id") \/ r.body.id = 0)
    \/ /\ r.handler \in {"getPetById", "updatePetWithForm", "deletePet"}
       /\ isNaN(parseInt(r.body.petId))

\* C28: an operation handler calls at most one service method, the one of
\* its operation, and sends one response, after which the request is over;
\* a request that fails the handler's own shape check is answered with 400
\* at once, with no service method called and the store neither read nor
\* written.
C28_OneCallOneResponse ==
    /\ [](\A p \in Procs : Has(req[p], "handler") =>
            /\ req[p].op \in {"", ServiceMethod[req[p].handler]}
            /\ ShapeCheckFails(req[p]) =>
                  /\ req[p].pc = "done"
                  /\ reply(req[p]).status = 400
                  /\ req[p].op = ""
                  /\ req[p].calls = <<>>)
    /\ [][\A p \in Procs :
            /\ (Steps(p) /\ Has(req[p], "handler")) =>
                  IF req[p].pc = "done" THEN req'[p] = Idle
                  ELSE /\ Has(req'[p], "handler")
                       /\ req'[p].handler = req[p].handler
                       /\ req'[p].body = req[p].body
                       /\ req'[p].op = req[p].op
            /\ (Steps(p) /\ Has(req'[p], "handler") /\ ShapeCheckFails(req'[p])) =>
                  UNCHANGED store]_vars

\* with a pet stored, DELETE /pet/a has been answered with 400 and the pet
\* is still there
C28_Witness ==
    \E p \in Procs :
        /\ Via(p, "deletePet")
        /\ ShapeCheckFails(req[p])
        /\ reply(req[p]).status = 400
        /\ pets # {}

WriteMethods ==
    {"createCategory", "updateCategory", "deleteCategory",
     "createPet", "updatePet", "deletePet"}

\* C30: the stored pets and categories change only in the step in which a
\* createCategory, updateCategory, deleteCategory, createPet, updatePet or
\* deletePet call returns successfully; so a call that ends in an error, and
\* every step of a read operation, leaves them as they are.
C30_ErrorsAndReadsChangeNothing ==
    [][\/ UNCHANGED <<categories, pets>>
       \/ \E p \in Procs :
            /\ Steps(p)
            /\ \A q \in Procs \ {p} : ~Steps(q)
            /\ req[p].pc \notin {"idle", "done"}
            /\ req[p].op \in WriteMethods
            /\ req'[p].pc = "done"
            /\ req'[p].result.ok]_vars

\* with a pet and a category stored, an updateCategory has failed at its
\* write because the category was deleted under it, and the other request
\* has ended in an error too
C30_Witness ==
    /\ Done(P1, "updateCategory")
    /\ LastCall(req[P1]) = "category.update"
    /\ ~req[P1].result.ok
    /\ req[P2].pc = "done" /\ ~req[P2].result.ok
    /\ pets # {}
    /\ categories # {}

\* the positions of the writes among the storage calls request r has issued
WritesIn(r) == {i \in 1..Len(r.calls) : r.calls[i] \in Writes}

\* request r has issued at most one write, and nothing after it
OneWriteLast(r) ==
    /\ Cardinality(WritesIn(r)) <= 1
    /\ WritesIn(r) # {} => (r.pc = "done" /\ WritesIn(r) = {Len(r.calls)})

\* request r has ended with a typed error whose code is one of `codes`
EndsIn(r, codes) ==
    /\ r.pc = "done"
    /\ ~r.result.ok
    /\ IsAppError(r.result.error)
    /\ r.result.error.code \in codes

\* a request awaits one storage call at a time: each of its steps issues the
\* one call it was waiting to make
OneCallAtATime ==
    \A p \in Procs :
        (Steps(p) /\ Has(req[p], "calls") /\ req[p].pc # "done")
        => req'[p].calls = Append(req[p].calls, req[p].pc)

\* C27 as stated: storage calls one after another, at most one write, no
\* call after it, and no write on a path that ends in BadRequest, NotFound or
\* a Validation failure of an advisory check.
C27_NoWriteBeforeNotFound ==
    /\ [](\A p \in Procs : Has(req[p], "calls") =>
            /\ OneWriteLast(req[p])
            /\ EndsIn(req[p], {"BAD_REQUEST", "NOT_FOUND"}) => WritesIn(req[p]) = {}
            /\ (EndsIn(req[p], {"VALIDATION_ERROR"}) /\ LastCall(req[p]) \notin Writes)
                  => WritesIn(req[p]) = {})
    /\ [][OneCallAtATime]_vars

\* C27, amended: storage calls one after another, at most one write, no call
\* after it; no storage call at all on a path that ends in BadRequest and no
\* write on a path that ends in a NotFound or Validation failure of an
\* advisory check; a path that ends in NotFound or Validation after its
\* write was issued is one where the store turned the write down and no row
\* changed.
C27_WriteTurnedDownOrLast ==
    /\ [](\A p \in Procs : Has(req[p], "calls") =>
            /\ OneWriteLast(req[p])
            /\ EndsIn(req[p], {"BAD_REQUEST"}) => req[p].calls = <<>>
            /\ (EndsIn(req[p], {"NOT_FOUND", "VALIDATION_ERROR"})
                    /\ LastCall(req[p]) \notin Writes)
                  => WritesIn(req[p]) = {})
    /\ [][/\ OneCallAtATime
          /\ \A p \in Procs :
                (/\ Steps(p)
                 /\ req[p].pc \in Writes
                 /\ EndsIn(req'[p], {"NOT_FOUND", "VALIDATION_ERROR"}))
                => (WriteOf(req[p]).error # NULL /\ UNCHANGED <<categories, pets>>)]_vars

\* updatePet found its pet, the pet was deleted, and the update it then
\* issued has ended in NotFound
C27_Witness ==
    \E p \in Procs :
        /\ Done(p, "updatePet")
        /\ LastCall(req[p]) = "pet.update"
        /\ EndsIn(req[p], {"NOT_FOUND"})

\* no storage call of request r was issued twice
NoCallRepeated(r) ==
    \A i \in 1..Len(r.calls), j \in 1..Len(r.calls) :
        r.calls[i] = r.calls[j] => i = j

\* C29: given that every storage call returns or fails in the end, every
\* request taken by an operation handler gets its response; no storage call
\* is issued twice within a request, and a step in which the service call
\* fails ends the request, whose response then reports the failure.
C29_EveryRequestAnswered ==
    /\ \A p \in Procs : Has(req[p], "handler") ~> req[p].pc = "done"
    /\ [](\A p \in Procs : Has(req[p], "handler") =>
            /\ NoCallRepeated(req[p])
            /\ (req[p].pc = "done" /\ ~Has(req[p], "sent") /\ ~req[p].result.ok)
                  => /\ reply(req[p]).status # 200
                     /\ Has(reply(req[p]).body, "code"))
    /\ [][\A p \in Procs :
            (Steps(p) /\ Has(req[p], "handler") /\ req[p].pc # "done")
            => /\ Has(req'[p], "handler")
               /\ req'[p].result # NULL => req'[p].pc = "done"]_vars

\* POST /pet has been answered with 500 after its pet.create was rejected
\* by a store out of reach
C29_Witness ==
    \E p \in Procs :
        /\ Via(p, "addPet")
        /\ req[p].pc = "done"
        /\ LastCall(req[p]) = "pet.create"
        /\ ~req[p].result.ok
        /\ reply(req[p]).status = 500

=============================================================================
